---- MODULE Spec2Model ----
(***************************************************************************)
(* Matchers of expect-matcher-node-mock (src/lib/mockMethodMatchers.mjs)    *)
(* over the call history of a node:test mock function.                      *)
(*                                                                          *)
(* The state is the received value (a spy with its mock.calls history, or   *)
(* some other value) and the outcome of the last matcher call.  One action  *)
(* invokes the spy (the only writer of the history), one action per         *)
(* exported matcher calls it with inputs drawn from small sets.  A second   *)
(* state machine keeps the returned result record and calls its message     *)
(* function while the spy goes on being invoked.                            *)
(***************************************************************************)
EXTENDS Integers, Sequences, FiniteSets

VARIABLES received, out

vars == <<received, out>>

----------------------------------------------------------------------------
(* Bounds of the model *)

MaxCalls == 2

MaxArgs == 2

\* how many times the message function of one result record is called
MaxMessages == 2

----------------------------------------------------------------------------
(* JavaScript values.  An array carries its identity (ref): two arrays with *)
(* the same items are deep-equal and not identical.                         *)

Undefined == [type |-> "undefined"]

Null == [type |-> "null"]

Str(s) == [type |-> "string", val |-> s]

\* a number n, kept as 2n so that 1.5 is a value
Num(n) == [type |-> "number", twice |-> 2 * n]

Half(h) == [type |-> "number", twice |-> h]

Arr(r, xs) == [type |-> "array", ref |-> r, items |-> xs]

Bool(b) == [type |-> "boolean", val |-> b]

ErrorObject == [type |-> "error", ref |-> 9]

Values == {Undefined, Str("foo"), Arr(1, <<Str("foo")>>), Arr(2, <<Str("foo")>>)}

ArgSeqs == UNION {[1..k -> Values] : k \in 0..MaxArgs}

\* typeof v
Typeof(v) ==
  CASE v.type = "null" -> "object"
    [] v.type = "array" -> "object"
    [] v.type = "error" -> "object"
    [] v.type = "mock" -> "object"
    [] OTHER -> v.type

\* a === b
StrictEquals(a, b) ==
  /\ a.type = b.type
  /\ CASE a.type \in {"undefined", "null"} -> TRUE
       [] a.type = "string" -> a.val = b.val
       [] a.type = "number" -> a.twice = b.twice
       [] OTHER -> a.ref = b.ref

RECURSIVE Equals(_, _)
\* expect(a).toEqual(b) does not throw: recursive equality of jest's equals
Equals(a, b) ==
  /\ a.type = b.type
  /\ CASE a.type \in {"undefined", "null"} -> TRUE
       [] a.type = "string" -> a.val = b.val
       [] a.type = "number" -> a.twice = b.twice
       [] a.type = "array" ->
            /\ Len(a.items) = Len(b.items)
            /\ \A i \in 1..Len(a.items) : Equals(a.items[i], b.items[i])
       [] OTHER -> a.ref = b.ref

----------------------------------------------------------------------------
(* The received value: typeof, and the mock property of a function *)

\* mock.calls records: arguments, result, error (node:test MockFunctionContext)
CallRecord(args, result, error) ==
  [type |-> "call", arguments |-> args, result |-> result, error |-> error]

\* the mock property of a node:test mock function with the history cs
MockContext(cs) == [type |-> "mock", hasCalls |-> TRUE, calls |-> cs]

\* an object that has no calls property
PlainObject == [type |-> "mock", hasCalls |-> FALSE, calls |-> <<>>]

Function(m) == [type |-> "function", mock |-> m]

\* mock.fn()
MockFn == Function(MockContext(<<>>))

InitialReceived ==
  {MockFn, Function(Undefined), Function(Num(1)), Function(Null),
   Function(PlainObject), Undefined, Str("foo"), Arr(1, <<Str("foo")>>)}

IsSpy(r) == r.type = "function" /\ r.mock.type = "mock" /\ r.mock.hasCalls

Calls(r) == r.mock.calls

----------------------------------------------------------------------------
(* Outcomes of a matcher call *)

Return(pass) == [kind |-> "return", pass |-> pass]

Throw(e) == [kind |-> "throw", error |-> e]

MustBeFunction == "received value must be a function"

MustBeNodeMock == "received value must be a node mock function"

\* reading a property of undefined or null
CannotReadProperties == "TypeError: Cannot read properties"

Contexts == {Undefined} \cup {[type |-> "context", isNot |-> n, promise |-> p] : n, p \in BOOLEAN}

----------------------------------------------------------------------------
(* Helpers of the matchers *)

\* a < k and a > k for a number or undefined a (undefined compares as NaN)
LessThan(a, k) == a.type = "number" /\ a.twice < 2 * k

GreaterThan(a, k) == a.type = "number" /\ a.twice > 2 * k

\* calls[n - 1]: undefined unless n - 1 is an index of calls
ElementAt(calls, n) ==
  IF /\ n.type = "number"
     /\ n.twice % 2 = 0
     /\ (n.twice \div 2) \in 1..Len(calls)
  THEN calls[n.twice \div 2]
  ELSE Undefined

\* receivedMethod.mock.calls can be read and is a list
CallsReadable(r) == r.mock.type = "mock" /\ r.mock.hasCalls

\* the length check dropped: positions past the call's arguments read undefined
argumentsMatchNoLength(callArgs, expectedArgs) ==
  \A index \in 1..Len(expectedArgs) :
    Equals(IF index <= Len(callArgs) THEN callArgs[index] ELSE Undefined,
           expectedArgs[index])

argumentsMatch(callArgs, expectedArgs) ==
  IF Len(callArgs) # Len(expectedArgs)
  THEN FALSE
  ELSE \A index \in 1..Len(expectedArgs) :
         Equals(callArgs[index], expectedArgs[index])

ensureReceivedIsNodeMock(r, matcherName) ==
  IF Typeof(r) # "function"
  THEN Throw(MustBeFunction)
  ELSE IF Typeof(r.mock) # "object"
       THEN Throw(MustBeNodeMock)
       ELSE Return(TRUE)

\* { isNot, promise } = {} of this: both undefined when this is undefined
matcherFactory(matcherName, this) ==
  [matcherName |-> matcherName,
   options |-> [comment |-> matcherName,
                isNot |-> IF this = Undefined THEN Undefined ELSE Bool(this.isNot),
                promise |-> IF this = Undefined THEN Undefined ELSE Bool(this.promise)],
   receivedText |-> "mock.fn()"]

\* call.error === undefined
Returned(call) == StrictEquals(call.error, Undefined)

----------------------------------------------------------------------------
(* The call-count and argument matchers *)

\* a value that is not falsy
Truthy(v) ==
  ~ \/ v.type \in {"undefined", "null"}
    \/ v.type = "string" /\ v.val = ""
    \/ v.type = "number" /\ v.twice = 0
    \/ v.type = "boolean" /\ ~v.val

\* args && args[0] for args.length > 0
toHaveBeenCalledTruthy(this, r, args) ==
  LET guard == ensureReceivedIsNodeMock(r, "toHaveBeenCalled") IN
  IF guard.kind = "throw" THEN guard
  ELSE IF Len(args) > 0 /\ Truthy(args[1]) THEN Return(FALSE)
  ELSE IF ~CallsReadable(r) THEN Throw(CannotReadProperties)
  ELSE Return(Len(Calls(r)) > 0)

\* >= 0 for > 0
toHaveBeenCalledNonNegative(this, r, args) ==
  LET guard == ensureReceivedIsNodeMock(r, "toHaveBeenCalled") IN
  IF guard.kind = "throw" THEN guard
  ELSE IF Len(args) > 0 THEN Return(FALSE)
  ELSE IF ~CallsReadable(r) THEN Throw(CannotReadProperties)
  ELSE Return(Len(Calls(r)) >= 0)

toHaveBeenCalled(this, r, args) ==
  LET guard == ensureReceivedIsNodeMock(r, "toHaveBeenCalled") IN
  IF guard.kind = "throw" THEN guard
  ELSE IF Len(args) > 0 THEN Return(FALSE)
  ELSE IF ~CallsReadable(r) THEN Throw(CannotReadProperties)
  ELSE Return(Len(Calls(r)) > 0)

\* the negation applied inside the matcher
toHaveBeenCalledTimesNegating(this, r, expected) ==
  LET guard == ensureReceivedIsNodeMock(r, "toHaveBeenCalledTimes")
      options == matcherFactory("toHaveBeenCalledTimes", this).options
      pass == Len(Calls(r)) = expected
  IN
  IF guard.kind = "throw" THEN guard
  ELSE IF ~CallsReadable(r) THEN Throw(CannotReadProperties)
  ELSE Return(IF Truthy(options.isNot) THEN ~pass ELSE pass)

\* >= for ===
toHaveBeenCalledTimesAtLeast(this, r, expected) ==
  LET guard == ensureReceivedIsNodeMock(r, "toHaveBeenCalledTimes") IN
  IF guard.kind = "throw" THEN guard
  ELSE IF ~CallsReadable(r) THEN Throw(CannotReadProperties)
  ELSE Return(Len(Calls(r)) >= expected)

toHaveBeenCalledTimes(this, r, expected) ==
  LET guard == ensureReceivedIsNodeMock(r, "toHaveBeenCalledTimes") IN
  IF guard.kind = "throw" THEN guard
  ELSE IF ~CallsReadable(r) THEN Throw(CannotReadProperties)
  ELSE Return(Len(Calls(r)) = expected)

\* only the last call looked at
toHaveBeenCalledWithLastOnly(this, r, args) ==
  LET guard == ensureReceivedIsNodeMock(r, "toHaveBeenCalledWith")
      match(call) == argumentsMatch(call.arguments, args)
  IN
  IF guard.kind = "throw" THEN guard
  ELSE IF ~CallsReadable(r) THEN Throw(CannotReadProperties)
  ELSE Return(Len(Calls(r)) > 0 /\ match(Calls(r)[Len(Calls(r))]))

toHaveBeenCalledWith(this, r, args) ==
  LET guard == ensureReceivedIsNodeMock(r, "toHaveBeenCalledWith")
      match(call) == argumentsMatch(call.arguments, args)
  IN
  IF guard.kind = "throw" THEN guard
  ELSE IF ~CallsReadable(r) THEN Throw(CannotReadProperties)
  ELSE Return(\E i \in 1..Len(Calls(r)) : match(Calls(r)[i]))

\* arguments compared with === position by position
toHaveBeenLastCalledWithIdentity(this, r, args) ==
  LET guard == ensureReceivedIsNodeMock(r, "toHaveBeenLastCalledWith")
      calls == Calls(r)
      callsCount == Len(calls)
      last == calls[callsCount].arguments
  IN
  IF guard.kind = "throw" THEN guard
  ELSE IF ~CallsReadable(r) THEN Throw(CannotReadProperties)
  ELSE IF callsCount = 0 THEN Return(FALSE)
  ELSE Return(/\ Len(last) = Len(args)
              /\ \A index \in 1..Len(args) : StrictEquals(last[index], args[index]))

\* the first call for the last one
toHaveBeenLastCalledWithFirst(this, r, args) ==
  LET guard == ensureReceivedIsNodeMock(r, "toHaveBeenLastCalledWith")
      calls == Calls(r)
      callsCount == Len(calls)
  IN
  IF guard.kind = "throw" THEN guard
  ELSE IF ~CallsReadable(r) THEN Throw(CannotReadProperties)
  ELSE IF callsCount = 0 THEN Return(FALSE)
  ELSE Return(argumentsMatch(calls[1].arguments, args))

toHaveBeenLastCalledWith(this, r, args) ==
  LET guard == ensureReceivedIsNodeMock(r, "toHaveBeenLastCalledWith")
      calls == Calls(r)
      callsCount == Len(calls)
  IN
  IF guard.kind = "throw" THEN guard
  ELSE IF ~CallsReadable(r) THEN Throw(CannotReadProperties)
  ELSE IF callsCount = 0 THEN Return(FALSE)
  ELSE Return(argumentsMatch(calls[callsCount].arguments, args))

\* calls[callsCount - nthCallIndex]: the nth call counted from the last one
toHaveBeenNthCalledWithFromEnd(this, r, nthCallIndex, args) ==
  LET guard == ensureReceivedIsNodeMock(r, "toHaveBeenNthCalledWith")
      calls == Calls(r)
      callsCount == Len(calls)
      nthCall == ElementAt(calls, Half(2 * (callsCount + 1) - nthCallIndex.twice))
  IN
  IF guard.kind = "throw" THEN guard
  ELSE IF ~CallsReadable(r) THEN Throw(CannotReadProperties)
  ELSE IF LessThan(nthCallIndex, 1) \/ GreaterThan(nthCallIndex, callsCount)
       THEN Return(FALSE)
  ELSE IF nthCallIndex = Undefined \/ nthCall = Undefined
       THEN Throw(CannotReadProperties)
  ELSE Return(argumentsMatch(nthCall.arguments, args))

\* calls[nthCallIndex] for calls[nthCallIndex - 1]
toHaveBeenNthCalledWithZeroBased(this, r, nthCallIndex, args) ==
  LET guard == ensureReceivedIsNodeMock(r, "toHaveBeenNthCalledWith")
      calls == Calls(r)
      callsCount == Len(calls)
      nthCall == ElementAt(calls, Half(nthCallIndex.twice + 2))
  IN
  IF guard.kind = "throw" THEN guard
  ELSE IF ~CallsReadable(r) THEN Throw(CannotReadProperties)
  ELSE IF LessThan(nthCallIndex, 1) \/ GreaterThan(nthCallIndex, callsCount)
       THEN Return(FALSE)
  ELSE IF nthCallIndex = Undefined \/ nthCall = Undefined
       THEN Throw(CannotReadProperties)
  ELSE Return(argumentsMatch(nthCall.arguments, args))

toHaveBeenNthCalledWith(this, r, nthCallIndex, args) ==
  LET guard == ensureReceivedIsNodeMock(r, "toHaveBeenNthCalledWith")
      calls == Calls(r)
      callsCount == Len(calls)
      nthCall == ElementAt(calls, nthCallIndex)
  IN
  IF guard.kind = "throw" THEN guard
  ELSE IF ~CallsReadable(r) THEN Throw(CannotReadProperties)
  ELSE IF LessThan(nthCallIndex, 1) \/ GreaterThan(nthCallIndex, callsCount)
       THEN Return(FALSE)
  ELSE IF nthCall = Undefined THEN Throw(CannotReadProperties)
  ELSE Return(argumentsMatch(nthCall.arguments, args))

----------------------------------------------------------------------------
(* The return-value matchers *)

\* every for some
toHaveReturnedEvery(this, r) ==
  LET guard == ensureReceivedIsNodeMock(r, "toHaveReturned") IN
  IF guard.kind = "throw" THEN guard
  ELSE IF ~CallsReadable(r) THEN Throw(CannotReadProperties)
  ELSE Return(\A i \in 1..Len(Calls(r)) : Returned(Calls(r)[i]))

toHaveReturned(this, r) ==
  LET guard == ensureReceivedIsNodeMock(r, "toHaveReturned") IN
  IF guard.kind = "throw" THEN guard
  ELSE IF ~CallsReadable(r) THEN Throw(CannotReadProperties)
  ELSE Return(\E i \in 1..Len(Calls(r)) : Returned(Calls(r)[i]))

\* the alias bound to toHaveBeenCalled
toReturnCalled(this, r) == toHaveBeenCalled(Undefined, r, <<>>)

\* toReturn calls toHaveReturned as a plain function: its this is undefined
toReturn(this, r) == toHaveReturned(Undefined, r)

\* the calls that raised counted too
toHaveReturnedTimesAllCalls(this, r, times) ==
  LET guard == ensureReceivedIsNodeMock(r, "toHaveReturnedTimes") IN
  IF guard.kind = "throw" THEN guard
  ELSE IF ~CallsReadable(r) THEN Throw(CannotReadProperties)
  ELSE Return(Len(Calls(r)) = times)

toHaveReturnedTimes(this, r, times) ==
  LET guard == ensureReceivedIsNodeMock(r, "toHaveReturnedTimes") IN
  IF guard.kind = "throw" THEN guard
  ELSE IF ~CallsReadable(r) THEN Throw(CannotReadProperties)
  ELSE Return(Cardinality({i \in 1..Len(Calls(r)) : Returned(Calls(r)[i])}) = times)

\* the calls that raised skipped
toHaveReturnedWithReturnedOnly(this, r, expected) ==
  LET guard == ensureReceivedIsNodeMock(r, "toHaveReturnedWith")
      match(call) == Returned(call) /\ Equals(call.result, expected)
  IN
  IF guard.kind = "throw" THEN guard
  ELSE IF ~CallsReadable(r) THEN Throw(CannotReadProperties)
  ELSE Return(\E i \in 1..Len(Calls(r)) : match(Calls(r)[i]))

\* call.result === expected for toEqual
toHaveReturnedWithIdentity(this, r, expected) ==
  LET guard == ensureReceivedIsNodeMock(r, "toHaveReturnedWith")
      match(call) == StrictEquals(call.result, expected)
  IN
  IF guard.kind = "throw" THEN guard
  ELSE IF ~CallsReadable(r) THEN Throw(CannotReadProperties)
  ELSE Return(\E i \in 1..Len(Calls(r)) : match(Calls(r)[i]))

toHaveReturnedWith(this, r, expected) ==
  LET guard == ensureReceivedIsNodeMock(r, "toHaveReturnedWith")
      match(call) == Equals(call.result, expected)
  IN
  IF guard.kind = "throw" THEN guard
  ELSE IF ~CallsReadable(r) THEN Throw(CannotReadProperties)
  ELSE Return(\E i \in 1..Len(Calls(r)) : match(Calls(r)[i]))

\* any call for the last one
toHaveLastReturnedWithAny(this, r, expected) ==
  LET guard == ensureReceivedIsNodeMock(r, "toHaveLastReturnedWith")
      calls == Calls(r)
  IN
  IF guard.kind = "throw" THEN guard
  ELSE IF ~CallsReadable(r) THEN Throw(CannotReadProperties)
  ELSE IF Len(calls) = 0 THEN Return(FALSE)
  ELSE Return(\E i \in 1..Len(calls) : Equals(calls[i].result, expected))

toHaveLastReturnedWith(this, r, expected) ==
  LET guard == ensureReceivedIsNodeMock(r, "toHaveLastReturnedWith")
      calls == Calls(r)
  IN
  IF guard.kind = "throw" THEN guard
  ELSE IF ~CallsReadable(r) THEN Throw(CannotReadProperties)
  ELSE IF Len(calls) = 0 THEN Return(FALSE)
  ELSE Return(Equals(calls[Len(calls)].result, expected))

\* the range check dropped
toHaveNthReturnedWithNoRange(this, r, nthCall, expected) ==
  LET guard == ensureReceivedIsNodeMock(r, "toHaveNthReturnedWith")
      calls == Calls(r)
      nth == ElementAt(calls, nthCall)
  IN
  IF guard.kind = "throw" THEN guard
  ELSE IF ~CallsReadable(r) THEN Throw(CannotReadProperties)
  ELSE IF nth = Undefined THEN Throw(CannotReadProperties)
  ELSE Return(Equals(nth.result, expected))

\* the last call for the nth one
toHaveNthReturnedWithLast(this, r, nthCall, expected) ==
  LET guard == ensureReceivedIsNodeMock(r, "toHaveNthReturnedWith")
      calls == Calls(r)
  IN
  IF guard.kind = "throw" THEN guard
  ELSE IF ~CallsReadable(r) THEN Throw(CannotReadProperties)
  ELSE IF LessThan(nthCall, 1) \/ GreaterThan(nthCall, Len(calls))
       THEN Return(FALSE)
  ELSE IF ElementAt(calls, nthCall) = Undefined THEN Throw(CannotReadProperties)
  ELSE Return(Equals(calls[Len(calls)].result, expected))

toHaveNthReturnedWith(this, r, nthCall, expected) ==
  LET guard == ensureReceivedIsNodeMock(r, "toHaveNthReturnedWith")
      calls == Calls(r)
      nth == ElementAt(calls, nthCall)
  IN
  IF guard.kind = "throw" THEN guard
  ELSE IF ~CallsReadable(r) THEN Throw(CannotReadProperties)
  ELSE IF LessThan(nthCall, 1) \/ GreaterThan(nthCall, Len(calls))
       THEN Return(FALSE)
  ELSE IF nth = Undefined THEN Throw(CannotReadProperties)
  ELSE Return(Equals(nth.result, expected))

----------------------------------------------------------------------------
(* The messages.  A text is a sequence of parts: the hint, literal pieces,   *)
(* and printed or coloured values.  Each operator below is the text that     *)
(* the message function of the returned result record yields, computed from  *)
(* what the matcher captured when it ran.                                    *)

\* a literal piece of a template
Lit(s) == [t |-> "lit", s |-> s]

\* ${v}: String(v)
ToString(v) == [t |-> "string", v |-> v]

\* chalk.green(v), chalk.red(v)
EXPECTED_COLOR(v) == [t |-> "green", v |-> v]

RECEIVED_COLOR(v) == [t |-> "red", v |-> v]

RECURSIVE stringify(_)
\* pretty-format of a value: the contents of an array, not its identity
stringify(v) ==
  IF v.type = "array"
  THEN [type |-> "array", items |-> [i \in 1..Len(v.items) |-> stringify(v.items[i])]]
  ELSE v

printExpected(v) == [t |-> "expected", v |-> stringify(v)]

printReceived(v) == [t |-> "received", v |-> stringify(v)]

\* expect(received)[.promise][.not].matcherName(expected) // comment
matcherHint(matcherName, receivedText, expectedText, options) ==
  [t |-> "hint", matcherName |-> matcherName, received |-> receivedText,
   expected |-> expectedText, promise |-> options.promise,
   isNot |-> Truthy(options.isNot), comment |-> options.comment]

formatExpectedArgs(args) ==
  IF Len(args) = 0
  THEN <<Lit("called with 0 arguments")>>
  ELSE [i \in 1..Len(args) |-> printExpected(args[i])]

\* callArgs.map(arg => printReceived(arg)).join(', ') || 'called with 0 arguments'
formatReceivedArgs(callArgs) ==
  IF Len(callArgs) = 0
  THEN <<Lit("called with 0 arguments")>>
  ELSE [i \in 1..Len(callArgs) |-> printReceived(callArgs[i])]

\* 'not ' in front of the expected value of a passing matcher
Negation(pass) == IF pass THEN <<Lit("not ")>> ELSE <<>>

RECURSIVE ReceivedLines(_)
\* one line per call: its 0-based index and its arguments
ReceivedLines(calls) ==
  IF Len(calls) = 0
  THEN <<>>
  ELSE ReceivedLines(SubSeq(calls, 1, Len(calls) - 1))
         \o <<ToString(Num(Len(calls) - 1))>>
         \o formatReceivedArgs(calls[Len(calls)].arguments)

\* 'not called', or 'only called <count> time(s)'
ButTheFunctionWas(callsCount) ==
  IF callsCount = 0
  THEN <<Lit("But the function was "), Lit("not called")>>
  ELSE <<Lit("But the function was "), Lit("only called "),
         ToString(Num(callsCount)), Lit(" time(s)")>>

toHaveBeenCalledMessage(this, r, args) ==
  LET f == matcherFactory("toHaveBeenCalled", this)
      hint == matcherHint(f.matcherName, f.receivedText, "", f.options)
      callsCount == Len(Calls(r))
  IN
  IF Len(args) > 0
  THEN <<hint, Lit("Matcher error: this matcher must not have an expected argument"),
         Lit("Expected has type:  "), Lit(Typeof(args[1])),
         Lit("Expected has value: "), EXPECTED_COLOR(args[1])>>
  ELSE IF callsCount > 0
  THEN <<hint, Lit("Expected number of calls: "), EXPECTED_COLOR(Str("0")),
         Lit("Received number of calls: "), RECEIVED_COLOR(Num(callsCount))>>
  ELSE <<hint, Lit("Expected number of calls: >= "), EXPECTED_COLOR(Str("1")),
         Lit("Received number of calls:    "), RECEIVED_COLOR(Str("0"))>>

\* the received count left out of the failure text
toHaveBeenCalledTimesMessageExpectedOnly(this, r, expected) ==
  LET f == matcherFactory("toHaveBeenCalledTimes", this)
      hint == matcherHint(f.matcherName, f.receivedText, "expected", f.options)
      count == Len(Calls(r))
  IN
  IF count = expected
  THEN <<hint, Lit("Expected number of calls: not "), EXPECTED_COLOR(Num(count))>>
  ELSE <<hint, Lit("Expected number of calls: "), EXPECTED_COLOR(Num(expected))>>

toHaveBeenCalledTimesMessage(this, r, expected) ==
  LET f == matcherFactory("toHaveBeenCalledTimes", this)
      hint == matcherHint(f.matcherName, f.receivedText, "expected", f.options)
      count == Len(Calls(r))
  IN
  IF count = expected
  THEN <<hint, Lit("Expected number of calls: not "), EXPECTED_COLOR(Num(count))>>
  ELSE <<hint, Lit("Expected number of calls: "), EXPECTED_COLOR(Num(expected)),
         Lit("Received number of calls: "), RECEIVED_COLOR(Num(count))>>

toHaveBeenCalledWithMessage(this, r, args) ==
  LET f == matcherFactory("toHaveBeenCalledWith", this)
      calls == Calls(r)
      pass == toHaveBeenCalledWith(this, r, args).pass
      expectedMsg == <<Lit("Expected: ")>> \o Negation(pass) \o formatExpectedArgs(args)
      receivedMsg ==
        IF Len(calls) = 0
        THEN <<Lit("But the function was not called")>>
        ELSE <<Lit("Received")>> \o ReceivedLines(calls)
  IN
  <<matcherHint(f.matcherName, f.receivedText, "...expected", f.options)>>
    \o expectedMsg \o receivedMsg
    \o <<Lit("Number of calls: "), RECEIVED_COLOR(Num(Len(calls)))>>

toHaveBeenLastCalledWithMessage(this, r, args) ==
  LET f == matcherFactory("toHaveBeenLastCalledWith", this)
      hint == matcherHint(f.matcherName, f.receivedText, "...expected", f.options)
      calls == Calls(r)
      callsCount == Len(calls)
      pass == toHaveBeenLastCalledWith(this, r, args).pass
  IN
  IF callsCount = 0
  THEN <<hint, Lit("Expected: ")>> \o formatExpectedArgs(args)
         \o <<Lit("But the function was not called"),
              Lit("Number of calls: "), RECEIVED_COLOR(Num(0))>>
  ELSE <<hint, Lit("Expected: ")>> \o Negation(pass) \o formatExpectedArgs(args)
         \o <<Lit("Received: ")>> \o formatReceivedArgs(calls[callsCount].arguments)
         \o <<Lit("Number of calls: "), RECEIVED_COLOR(Num(callsCount))>>

\* the 'not called' case dropped from the out-of-range text
toHaveBeenNthCalledWithMessageOnlyCalled(this, r, nthCallIndex, args) ==
  LET f == matcherFactory("toHaveBeenNthCalledWith", this)
      hint == matcherHint(f.matcherName, f.receivedText, "...expected", f.options)
      calls == Calls(r)
      callsCount == Len(calls)
      pass == toHaveBeenNthCalledWith(this, r, nthCallIndex, args).pass
  IN
  IF LessThan(nthCallIndex, 1) \/ GreaterThan(nthCallIndex, callsCount)
  THEN <<hint, Lit("n: "), ToString(nthCallIndex), Lit("Expected: ")>>
         \o formatExpectedArgs(args)
         \o <<Lit("But the function was "), Lit("only called "),
              ToString(Num(callsCount)), Lit(" time(s)")>>
         \o <<Lit("Number of calls: "), RECEIVED_COLOR(Num(callsCount))>>
  ELSE <<hint, Lit("n: "), ToString(nthCallIndex), Lit("Expected: ")>>
         \o Negation(pass) \o formatExpectedArgs(args)
         \o <<Lit("Received: ")>>
         \o formatReceivedArgs(ElementAt(calls, nthCallIndex).arguments)
         \o <<Lit("Number of calls: "), RECEIVED_COLOR(Num(callsCount))>>

toHaveBeenNthCalledWithMessage(this, r, nthCallIndex, args) ==
  LET f == matcherFactory("toHaveBeenNthCalledWith", this)
      hint == matcherHint(f.matcherName, f.receivedText, "...expected", f.options)
      calls == Calls(r)
      callsCount == Len(calls)
      pass == toHaveBeenNthCalledWith(this, r, nthCallIndex, args).pass
  IN
  IF LessThan(nthCallIndex, 1) \/ GreaterThan(nthCallIndex, callsCount)
  THEN <<hint, Lit("n: "), ToString(nthCallIndex), Lit("Expected: ")>>
         \o formatExpectedArgs(args)
         \o ButTheFunctionWas(callsCount)
         \o <<Lit("Number of calls: "), RECEIVED_COLOR(Num(callsCount))>>
  ELSE <<hint, Lit("n: "), ToString(nthCallIndex), Lit("Expected: ")>>
         \o Negation(pass) \o formatExpectedArgs(args)
         \o <<Lit("Received: ")>>
         \o formatReceivedArgs(ElementAt(calls, nthCallIndex).arguments)
         \o <<Lit("Number of calls: "), RECEIVED_COLOR(Num(callsCount))>>

toHaveReturnedMessage(this, r) ==
  LET f == matcherFactory("toHaveReturned", this)
      hint == matcherHint(f.matcherName, f.receivedText, "", f.options)
      pass == toHaveReturned(this, r).pass
  IN
  IF pass
  THEN <<hint, Lit("Expected: "), printExpected(Str("not to return an error")),
         Lit("Received: "), printReceived(Str("returned without error"))>>
  ELSE <<hint, Lit("Expected: "), printExpected(Str("not to return an error")),
         Lit("Received: "), printReceived(Str("returned with error"))>>

\* toReturn returns the record of toHaveReturned called without a this
toReturnMessage(this, r) == toHaveReturnedMessage(Undefined, r)

toHaveReturnedTimesMessage(this, r, times) ==
  LET f == matcherFactory("toHaveReturnedTimes", this)
      successfulReturns == Cardinality({i \in 1..Len(Calls(r)) : Returned(Calls(r)[i])})
      pass == successfulReturns = times
  IN
  <<matcherHint(f.matcherName, f.receivedText, "expected", f.options), Lit("Expected: ")>>
    \o Negation(pass)
    \o <<printExpected(Num(times)), Lit("Received: "), printReceived(Num(successfulReturns))>>

toHaveReturnedWithMessage(this, r, expected) ==
  LET f == matcherFactory("toHaveReturnedWith", this)
      pass == toHaveReturnedWith(this, r, expected).pass
      allResults == Arr(0, [i \in 1..Len(Calls(r)) |-> Calls(r)[i].result])
  IN
  <<matcherHint(f.matcherName, f.receivedText, "expected", f.options), Lit("Expected: ")>>
    \o Negation(pass)
    \o <<printExpected(expected), Lit("Received: "), printReceived(allResults)>>

toHaveLastReturnedWithMessage(this, r, expected) ==
  LET f == matcherFactory("toHaveLastReturnedWith", this)
      hint == matcherHint(f.matcherName, f.receivedText, "expected", f.options)
      calls == Calls(r)
      pass == toHaveLastReturnedWith(this, r, expected).pass
  IN
  IF Len(calls) = 0
  THEN <<hint, Lit("Expected: "), printExpected(expected),
         Lit("But the function was not called")>>
  ELSE <<hint, Lit("Expected: ")>> \o Negation(pass)
         \o <<printExpected(expected), Lit("Received: "),
              printReceived(calls[Len(calls)].result)>>

toHaveNthReturnedWithMessage(this, r, nthCall, expected) ==
  LET f == matcherFactory("toHaveNthReturnedWith", this)
      hint == matcherHint(f.matcherName, f.receivedText, "expected", f.options)
      calls == Calls(r)
      pass == toHaveNthReturnedWith(this, r, nthCall, expected).pass
  IN
  IF LessThan(nthCall, 1) \/ GreaterThan(nthCall, Len(calls))
  THEN <<hint, Lit("n: "), ToString(nthCall), Lit("Expected: "), printExpected(expected)>>
         \o ButTheFunctionWas(Len(calls))
  ELSE <<hint, Lit("n: "), ToString(nthCall), Lit("Expected: ")>> \o Negation(pass)
         \o <<printExpected(expected), Lit("Received: "),
              printReceived(ElementAt(calls, nthCall).result)>>

----------------------------------------------------------------------------
(* The state machine *)

\* what a matcher call was given and what came of it
Outcome(m, args, n, expected, times, result) ==
  [matcher |-> m, args |-> args, n |-> n, expected |-> expected,
   times |-> times, result |-> result]

NoOutcome == Outcome("none", <<>>, Undefined, Undefined, 0, Return(FALSE))

\* implementations given to mock.fn: arg => arg, and () => { throw new Error() }
Implementations == {"identity", "throws"}

\* the record node:test appends to mock.calls for one invocation
Invocation(impl, args) ==
  IF impl = "throws"
  THEN CallRecord(args, Undefined, ErrorObject)
  ELSE CallRecord(args, IF Len(args) > 0 THEN args[1] ELSE Undefined, Undefined)

Counts == 0..(MaxCalls + 1)

Indexes == {Num(k) : k \in 0..(MaxCalls + 1)} \cup {Half(3), Undefined}

\* what toHaveBeenCalled may be given: nothing, or one value, falsy ones too
UnexpectedArgs ==
  {<<>>} \cup {<<v>> : v \in Values \cup {Null, Num(0), Str("")}}

Init ==
  /\ received \in InitialReceived
  /\ out = NoOutcome

\* the spy is invoked: method(...args)
Invoke ==
  /\ out = NoOutcome
  /\ IsSpy(received)
  /\ Len(Calls(received)) < MaxCalls
  /\ \E impl \in Implementations, args \in ArgSeqs :
       received' = Function(MockContext(Append(Calls(received), Invocation(impl, args))))
  /\ UNCHANGED out

CallToHaveBeenCalled ==
  /\ out = NoOutcome
  /\ \E this \in Contexts, args \in UnexpectedArgs :
       out' = Outcome("toHaveBeenCalled", args, Undefined, Undefined, 0,
                      toHaveBeenCalled(this, received, args))
  /\ UNCHANGED received

CallToHaveBeenCalledTimes ==
  /\ out = NoOutcome
  /\ \E this \in Contexts, expected \in Counts :
       out' = Outcome("toHaveBeenCalledTimes", <<>>, Undefined, Undefined, expected,
                      toHaveBeenCalledTimes(this, received, expected))
  /\ UNCHANGED received

CallToHaveBeenCalledWith ==
  /\ out = NoOutcome
  /\ \E this \in Contexts, args \in ArgSeqs :
       out' = Outcome("toHaveBeenCalledWith", args, Undefined, Undefined, 0,
                      toHaveBeenCalledWith(this, received, args))
  /\ UNCHANGED received

\* calls.pop() for calls[callsCount - 1]
CallToHaveBeenLastCalledWithPop ==
  /\ out = NoOutcome
  /\ \E this \in Contexts, args \in ArgSeqs :
       out' = Outcome("toHaveBeenLastCalledWith", args, Undefined, Undefined, 0,
                      toHaveBeenLastCalledWith(this, received, args))
  /\ received' =
       IF IsSpy(received) /\ Len(Calls(received)) > 0
       THEN Function(MockContext(SubSeq(Calls(received), 1, Len(Calls(received)) - 1)))
       ELSE received

CallToHaveBeenLastCalledWith ==
  /\ out = NoOutcome
  /\ \E this \in Contexts, args \in ArgSeqs :
       out' = Outcome("toHaveBeenLastCalledWith", args, Undefined, Undefined, 0,
                      toHaveBeenLastCalledWith(this, received, args))
  /\ UNCHANGED received

\* calls.splice(0, 1)[0] for calls[0]: the first record is taken out
CallToHaveBeenNthCalledWithSplice ==
  /\ out = NoOutcome
  /\ \E this \in Contexts, n \in Indexes, args \in ArgSeqs :
       out' = Outcome("toHaveBeenNthCalledWith", args, n, Undefined, 0,
                      toHaveBeenNthCalledWith(this, received, n, args))
  /\ received' =
       IF IsSpy(received) /\ Len(Calls(received)) > 0
       THEN Function(MockContext(Tail(Calls(received))))
       ELSE received

CallToHaveBeenNthCalledWith ==
  /\ out = NoOutcome
  /\ \E this \in Contexts, n \in Indexes, args \in ArgSeqs :
       out' = Outcome("toHaveBeenNthCalledWith", args, n, Undefined, 0,
                      toHaveBeenNthCalledWith(this, received, n, args))
  /\ UNCHANGED received

CallToHaveReturned ==
  /\ out = NoOutcome
  /\ \E this \in Contexts :
       out' = Outcome("toHaveReturned", <<>>, Undefined, Undefined, 0,
                      toHaveReturned(this, received))
  /\ UNCHANGED received

CallToReturn ==
  /\ out = NoOutcome
  /\ \E this \in Contexts :
       out' = Outcome("toReturn", <<>>, Undefined, Undefined, 0,
                      toReturn(this, received))
  /\ UNCHANGED received

CallToHaveReturnedTimes ==
  /\ out = NoOutcome
  /\ \E this \in Contexts, times \in Counts :
       out' = Outcome("toHaveReturnedTimes", <<>>, Undefined, Undefined, times,
                      toHaveReturnedTimes(this, received, times))
  /\ UNCHANGED received

CallToHaveReturnedWith ==
  /\ out = NoOutcome
  /\ \E this \in Contexts, expected \in Values :
       out' = Outcome("toHaveReturnedWith", <<>>, Undefined, expected, 0,
                      toHaveReturnedWith(this, received, expected))
  /\ UNCHANGED received

CallToHaveLastReturnedWith ==
  /\ out = NoOutcome
  /\ \E this \in Contexts, expected \in Values :
       out' = Outcome("toHaveLastReturnedWith", <<>>, Undefined, expected, 0,
                      toHaveLastReturnedWith(this, received, expected))
  /\ UNCHANGED received

CallToHaveNthReturnedWith ==
  /\ out = NoOutcome
  /\ \E this \in Contexts, n \in Indexes, expected \in Values :
       out' = Outcome("toHaveNthReturnedWith", <<>>, n, expected, 0,
                      toHaveNthReturnedWith(this, received, n, expected))
  /\ UNCHANGED received

\* the assertion engine has taken the result record; the test goes on
Report ==
  /\ out # NoOutcome
  /\ out' = NoOutcome
  /\ UNCHANGED received

Next ==
  \/ Invoke
  \/ Report
  \/ CallToHaveBeenCalled
  \/ CallToHaveBeenCalledTimes
  \/ CallToHaveBeenCalledWith
  \/ CallToHaveBeenLastCalledWith
  \/ CallToHaveBeenNthCalledWith
  \/ CallToHaveReturned
  \/ CallToReturn
  \/ CallToHaveReturnedTimes
  \/ CallToHaveReturnedWith
  \/ CallToHaveLastReturnedWith
  \/ CallToHaveNthReturnedWith

Spec == Init /\ [][Next]_vars

\* the matcher registered under o.matcher, called again with the arguments of o
Apply(this, r, o) ==
  CASE o.matcher = "toHaveBeenCalled" -> toHaveBeenCalled(this, r, o.args)
    [] o.matcher = "toHaveBeenCalledTimes" -> toHaveBeenCalledTimes(this, r, o.times)
    [] o.matcher = "toHaveBeenCalledWith" -> toHaveBeenCalledWith(this, r, o.args)
    [] o.matcher = "toHaveBeenLastCalledWith" -> toHaveBeenLastCalledWith(this, r, o.args)
    [] o.matcher = "toHaveBeenNthCalledWith" -> toHaveBeenNthCalledWith(this, r, o.n, o.args)
    [] o.matcher = "toHaveReturned" -> toHaveReturned(this, r)
    [] o.matcher = "toReturn" -> toReturn(this, r)
    [] o.matcher = "toHaveReturnedTimes" -> toHaveReturnedTimes(this, r, o.times)
    [] o.matcher = "toHaveReturnedWith" -> toHaveReturnedWith(this, r, o.expected)
    [] o.matcher = "toHaveLastReturnedWith" -> toHaveLastReturnedWith(this, r, o.expected)
    [] o.matcher = "toHaveNthReturnedWith" -> toHaveNthReturnedWith(this, r, o.n, o.expected)

\* the text of the message function of the record that Apply returns
ApplyMessage(this, r, o) ==
  CASE o.matcher = "toHaveBeenCalled" -> toHaveBeenCalledMessage(this, r, o.args)
    [] o.matcher = "toHaveBeenCalledTimes" -> toHaveBeenCalledTimesMessage(this, r, o.times)
    [] o.matcher = "toHaveBeenCalledWith" -> toHaveBeenCalledWithMessage(this, r, o.args)
    [] o.matcher = "toHaveBeenLastCalledWith" -> toHaveBeenLastCalledWithMessage(this, r, o.args)
    [] o.matcher = "toHaveBeenNthCalledWith" ->
         toHaveBeenNthCalledWithMessage(this, r, o.n, o.args)
    [] o.matcher = "toHaveReturned" -> toHaveReturnedMessage(this, r)
    [] o.matcher = "toReturn" -> toReturnMessage(this, r)
    [] o.matcher = "toHaveReturnedTimes" -> toHaveReturnedTimesMessage(this, r, o.times)
    [] o.matcher = "toHaveReturnedWith" -> toHaveReturnedWithMessage(this, r, o.expected)
    [] o.matcher = "toHaveLastReturnedWith" ->
         toHaveLastReturnedWithMessage(this, r, o.expected)
    [] o.matcher = "toHaveNthReturnedWith" ->
         toHaveNthReturnedWithMessage(this, r, o.n, o.expected)

----------------------------------------------------------------------------
(* The state machine of a test that keeps the result record: it calls a     *)
(* matcher as a plain function on a context object, keeps what it returns,  *)
(* calls message() on it, and goes on invoking the spy in between.          *)

\* argument lists of the invocations and of the assertions of such a test
FewArgs == {<<>>, <<Str("foo")>>, <<Undefined>>}

FewValues == {Undefined, Str("foo")}

\* the matcher calls of such a test, before their result is known
Assertions ==
  {Outcome("toHaveBeenCalled", args, Undefined, Undefined, 0, Return(FALSE)) :
     args \in {<<>>, <<Str("foo")>>}}
  \cup {Outcome(m, <<>>, Undefined, Undefined, times, Return(FALSE)) :
     m \in {"toHaveBeenCalledTimes", "toHaveReturnedTimes"}, times \in Counts}
  \cup {Outcome(m, args, Undefined, Undefined, 0, Return(FALSE)) :
     m \in {"toHaveBeenCalledWith", "toHaveBeenLastCalledWith"}, args \in FewArgs}
  \cup {Outcome("toHaveBeenNthCalledWith", args, n, Undefined, 0, Return(FALSE)) :
     n \in Indexes, args \in FewArgs}
  \cup {Outcome(m, <<>>, Undefined, Undefined, 0, Return(FALSE)) :
     m \in {"toHaveReturned", "toReturn"}}
  \cup {Outcome(m, <<>>, Undefined, expected, 0, Return(FALSE)) :
     m \in {"toHaveReturnedWith", "toHaveLastReturnedWith"}, expected \in FewValues}
  \cup {Outcome("toHaveNthReturnedWith", <<>>, n, expected, 0, Return(FALSE)) :
     n \in Indexes, expected \in FewValues}

\* the result record kept by the test: what the matcher was given (this     *)
\* included), the copy of mock.calls it read, pass or the error raised, the *)
\* message function (as the text it yields from what it captured), and the  *)
\* texts that message() has returned so far                                 *)
Kept(o, this, r) ==
  LET result == Apply(this, r, o) IN
  [matcher |-> o.matcher, args |-> o.args, n |-> o.n, expected |-> o.expected,
   times |-> o.times, this |-> this, calls |-> Calls(r), result |-> result,
   message |-> IF result.kind = "return" THEN ApplyMessage(this, r, o) ELSE <<>>,
   texts |-> <<>>]

MessageInit ==
  /\ received = MockFn
  /\ out = NoOutcome

\* the spy is invoked, before an assertion or while its result record is kept
InvokeSpy ==
  /\ Len(Calls(received)) < MaxCalls
  /\ \E impl \in Implementations, args \in FewArgs :
       received' = Function(MockContext(Append(Calls(received), Invocation(impl, args))))
  /\ UNCHANGED out

\* result = options.matcher(method, ...)
CallMatcher ==
  /\ out = NoOutcome
  /\ \E this \in Contexts, o \in Assertions : out' = Kept(o, this, received)
  /\ UNCHANGED received

\* the message function reading the calls of the spy when it is called
CallMessageLive ==
  /\ out # NoOutcome
  /\ out.result.kind = "return"
  /\ Len(out.texts) < MaxMessages
  /\ out' = [out EXCEPT !.texts =
       Append(@, [text |-> IF Apply(out.this, received, out).kind = "return"
                           THEN ApplyMessage(out.this, received, out)
                           ELSE out.message,
                  at |-> Len(Calls(received))])]
  /\ UNCHANGED received

\* result.message(), called when the spy has `at` call records
CallMessage ==
  /\ out # NoOutcome
  /\ out.result.kind = "return"
  /\ Len(out.texts) < MaxMessages
  /\ out' = [out EXCEPT !.texts =
       Append(@, [text |-> out.message, at |-> Len(Calls(received))])]
  /\ UNCHANGED received

MessageNext ==
  \/ InvokeSpy
  \/ CallMatcher
  \/ CallMessage
  \/ Report

MessageSpec == MessageInit /\ [][MessageNext]_vars

----------------------------------------------------------------------------
(* Vocabulary of the properties *)

\* the history of the spy under assertion
History == Calls(received)

Count == Len(History)

\* the matcher m has just been called on a recognized spy
Asserted(m) == out.matcher = m /\ IsSpy(received)

Returns == out.result.kind = "return"

Passed == Returns /\ out.result.pass

Failed == Returns /\ ~out.result.pass

RECURSIVE Structure(_)
\* a value without the identities of its arrays
Structure(v) ==
  IF v.type = "array"
  THEN [type |-> "array", items |-> [i \in 1..Len(v.items) |-> Structure(v.items[i])]]
  ELSE v

\* structural equality: the same value up to identity
DeepEqual(a, b) == Structure(a) = Structure(b)

\* two argument sequences of the same length, deep-equal position by position
SameArguments(xs, ys) ==
  /\ Len(xs) = Len(ys)
  /\ \A i \in 1..Len(xs) : DeepEqual(xs[i], ys[i])

\* n is the number k
IsNumber(n, k) == n.type = "number" /\ n.twice = 2 * k

IsInteger(n) == n.type = "number" /\ n.twice % 2 = 0

\* the matchers that take a 1-based index
NthMatchers == {"toHaveBeenNthCalledWith", "toHaveNthReturnedWith"}

\* the record of the history raised
Raised(call) == call.error # Undefined

----------------------------------------------------------------------------
(* C1: toHaveBeenCalledWith on a recognized spy passes iff some call record *)
(* has an argument sequence of the same length as expectedArgs, deep-equal  *)
(* at every position; a sole call (a, b) with a, b not deep-equal passes    *)
(* for (a, b) and fails for (b, a); a spy with no records fails.            *)
C1_CalledWithIffSomeCallMatches ==
  Asserted("toHaveBeenCalledWith") =>
    /\ Returns
    /\ out.result.pass <=>
         \E i \in 1..Count : SameArguments(History[i].arguments, out.args)
    /\ Count = 0 => ~out.result.pass
    /\ \A a, b \in Values :
         (Count = 1 /\ History[1].arguments = <<a, b>> /\ ~DeepEqual(a, b)) =>
           /\ out.args = <<a, b>> => out.result.pass
           /\ out.args = <<b, a>> => ~out.result.pass

\* a sole call (a, b) asserted in the reverse order has failed
C1_Witness ==
  /\ Asserted("toHaveBeenCalledWith")
  /\ Count = 1
  /\ Len(out.args) = 2
  /\ ~DeepEqual(out.args[1], out.args[2])
  /\ History[1].arguments = <<out.args[2], out.args[1]>>
  /\ Failed

(* C2: toHaveBeenCalledTimes(S, k) passes iff k is the number of call      *)
(* records; k = count - 1 and k = count + 1 fail; with no records 0 passes  *)
(* and 1 fails.                                                             *)
C2_CalledTimesIffCount ==
  Asserted("toHaveBeenCalledTimes") =>
    /\ Returns
    /\ out.result.pass <=> out.times = Count
    /\ out.times \in {Count - 1, Count + 1} => ~out.result.pass
    /\ Count = 0 => (out.times = 0 => out.result.pass) /\ (out.times = 1 => ~out.result.pass)

\* a spy with two records asserted with k = 1 has failed
C2_Witness ==
  /\ Asserted("toHaveBeenCalledTimes")
  /\ Count = 2
  /\ out.times = Count - 1
  /\ Failed

(* C3: toHaveBeenCalled with no expected argument passes iff the spy has   *)
(* more than zero call records.                                             *)
C3_CalledIffCountPositive ==
  (Asserted("toHaveBeenCalled") /\ out.args = <<>>) =>
    /\ Returns
    /\ out.result.pass <=> Count > 0

\* a spy that was never invoked has failed
C3_Witness ==
  /\ Asserted("toHaveBeenCalled")
  /\ out.args = <<>>
  /\ Count = 0
  /\ Failed

(* C4: toHaveBeenNthCalledWith with an integer n passes iff 1 <= n <= count *)
(* and the arguments of the record at position n (n - 1 counted from 0)     *)
(* deep-equal args; outside [1, count] it fails whatever args and count.    *)
C4_NthCalledWithIffNthMatches ==
  (Asserted("toHaveBeenNthCalledWith") /\ IsInteger(out.n)) =>
    /\ Returns
    /\ out.result.pass <=>
         \E k \in 1..Count :
           IsNumber(out.n, k) /\ SameArguments(History[k].arguments, out.args)
    /\ (\A k \in 1..Count : ~IsNumber(out.n, k)) => ~out.result.pass

\* the first of two records with different arguments has passed
C4_Witness ==
  /\ Asserted("toHaveBeenNthCalledWith")
  /\ Count = 2
  /\ IsNumber(out.n, 1)
  /\ ~SameArguments(History[1].arguments, History[2].arguments)
  /\ Passed

(* C5: toHaveBeenLastCalledWith passes iff the spy has a call record and   *)
(* the arguments of the most recent one deep-equal expectedArgs; earlier    *)
(* records have no influence; a spy with no records fails.                  *)
C5_LastCalledWithIffLastMatches ==
  Asserted("toHaveBeenLastCalledWith") =>
    /\ Returns
    /\ out.result.pass <=>
         (Count >= 1 /\ SameArguments(History[Count].arguments, out.args))

\* an earlier record matches, the last one does not: failed
C5_Witness ==
  /\ Asserted("toHaveBeenLastCalledWith")
  /\ Count = 2
  /\ SameArguments(History[1].arguments, out.args)
  /\ Failed

(* C6: every matcher raises a usage error and returns no result record     *)
(* when the received value is not a recognized spy: the type-mismatch       *)
(* error when it is not callable, the 'must be a node mock function' error  *)
(* when it is callable and has no call-history container.                   *)
C6_StrictGuardRaises ==
  (out.matcher # "none" /\ ~IsSpy(received)) =>
    out.result =
      Throw(IF received.type = "function" THEN MustBeNodeMock ELSE MustBeFunction)

(* C7: on a recognized spy, with any history, expected values and integer  *)
(* index, every matcher returns a result record with a boolean pass; an     *)
(* unmet expectation or an out-of-range index is pass = false, not a raise. *)
C7_AssertionsNeverRaise ==
  (out.matcher # "none" /\ IsSpy(received)
     /\ (out.matcher \in NthMatchers => IsInteger(out.n))) =>
    /\ Returns
    /\ out.result.pass \in BOOLEAN
    /\ (out.matcher \in NthMatchers /\ \A k \in 1..Count : ~IsNumber(out.n, k)) =>
         ~out.result.pass

\* an index past the history has been reported as a failure
C7_Witness ==
  /\ Asserted("toHaveNthReturnedWith")
  /\ Count >= 1
  /\ IsNumber(out.n, Count + 1)
  /\ Failed

(* C8: toHaveReturned passes iff some call record has no error set; it      *)
(* fails with no records and when every invocation raised.                  *)
C8_ReturnedIffSomeCallReturned ==
  Asserted("toHaveReturned") =>
    /\ Returns
    /\ out.result.pass <=> \E i \in 1..Count : ~Raised(History[i])
    /\ (\A i \in 1..Count : Raised(History[i])) => ~out.result.pass

\* one invocation raised, a later one returned: passed
C8_Witness ==
  /\ Asserted("toHaveReturned")
  /\ Count = 2
  /\ Raised(History[1])
  /\ ~Raised(History[2])
  /\ Passed

(* C9: toHaveReturnedTimes(S, k) passes iff k is the number of call records *)
(* with no error; after one raising invocation 0 passes and 1 fails.        *)
C9_ReturnedTimesIffReturnCount ==
  Asserted("toHaveReturnedTimes") =>
    /\ Returns
    /\ out.result.pass <=>
         out.times = Cardinality({i \in 1..Count : ~Raised(History[i])})
    /\ (Count = 1 /\ Raised(History[1])) =>
         /\ out.times = 0 => out.result.pass
         /\ out.times = 1 => ~out.result.pass

\* after a sole raising invocation, k = 1 has failed
C9_Witness ==
  /\ Asserted("toHaveReturnedTimes")
  /\ Count = 1
  /\ Raised(History[1])
  /\ out.times = 1
  /\ Failed

(* C10: in toHaveReturnedWith a record that raised never counts: on a spy  *)
(* all of whose records raised, every expected value fails, undefined too.  *)
C10_RaisedNeverReturnedWith ==
  (Asserted("toHaveReturnedWith") /\ Count >= 1
     /\ \A i \in 1..Count : Raised(History[i])) =>
    Failed

(* C11: a raised record fails the positional return matchers: if the most  *)
(* recent call raised, toHaveLastReturnedWith fails for every v; if the nth *)
(* call raised, toHaveNthReturnedWith(n, v) fails for every v, undefined    *)
(* included.                                                                *)
C11_RaisedRecordFailsPositional ==
  /\ (Asserted("toHaveLastReturnedWith") /\ Count >= 1 /\ Raised(History[Count])) =>
       Failed
  /\ Asserted("toHaveNthReturnedWith") =>
       \A k \in 1..Count :
         (IsNumber(out.n, k) /\ Raised(History[k])) => Failed

(* C12: toHaveReturnedWith(S, v) passes iff some call record has a result  *)
(* that deep-equals v; a structurally equal value of another identity       *)
(* matches; a spy with no records fails for every v.                        *)
C12_ReturnedWithIffSomeResultMatches ==
  Asserted("toHaveReturnedWith") =>
    /\ Returns
    /\ out.result.pass <=> \E i \in 1..Count : DeepEqual(History[i].result, out.expected)
    /\ Count = 0 => ~out.result.pass

\* an array returned by the spy, asserted with an equal array of another identity
C12_Witness ==
  /\ Asserted("toHaveReturnedWith")
  /\ out.expected.type = "array"
  /\ \E i \in 1..Count :
       /\ ~Raised(History[i])
       /\ History[i].result.type = "array"
       /\ History[i].result.ref # out.expected.ref
  /\ \A i \in 1..Count : History[i].result # out.expected
  /\ Passed

(* C13: toHaveNthReturnedWith(S, n, v) with an integer n passes iff        *)
(* 1 <= n <= count and the result of the record at position n (n - 1        *)
(* counted from 0) deep-equals v; outside [1, count] it fails for every v   *)
(* and count.  A spy returning its first argument, invoked with a then b    *)
(* (not deep-equal): (1, a) and (2, b) pass, (1, b) fails.                  *)
C13_NthReturnedWithIffNthResultMatches ==
  (Asserted("toHaveNthReturnedWith") /\ IsInteger(out.n)) =>
    /\ Returns
    /\ out.result.pass <=>
         \E k \in 1..Count :
           IsNumber(out.n, k) /\ DeepEqual(History[k].result, out.expected)
    /\ (\A k \in 1..Count : ~IsNumber(out.n, k)) => ~out.result.pass
    /\ \A a, b \in Values :
         (/\ Count = 2
          /\ History[1] = Invocation("identity", <<a>>)
          /\ History[2] = Invocation("identity", <<b>>)
          /\ ~DeepEqual(a, b)) =>
           /\ (IsNumber(out.n, 1) /\ out.expected = a) => out.result.pass
           /\ (IsNumber(out.n, 2) /\ out.expected = b) => out.result.pass
           /\ (IsNumber(out.n, 1) /\ out.expected = b) => ~out.result.pass

\* returned a then b: asserting (1, b) has failed
C13_Witness ==
  /\ Asserted("toHaveNthReturnedWith")
  /\ Count = 2
  /\ ~Raised(History[1]) /\ ~Raised(History[2])
  /\ ~DeepEqual(History[1].result, History[2].result)
  /\ IsNumber(out.n, 1)
  /\ out.expected = History[2].result
  /\ Failed

(* C14: toHaveLastReturnedWith(S, v) passes iff the spy has a call record  *)
(* and the result of the most recent one deep-equals v; with no records it  *)
(* fails for every v, undefined included; the results of earlier records    *)
(* have no influence.                                                       *)
C14_LastReturnedWithIffLastResultMatches ==
  Asserted("toHaveLastReturnedWith") =>
    /\ Returns
    /\ out.result.pass <=>
         (Count >= 1 /\ DeepEqual(History[Count].result, out.expected))
    /\ Count = 0 => ~out.result.pass

\* an earlier record returned v, the last one did not: failed
C14_Witness ==
  /\ Asserted("toHaveLastReturnedWith")
  /\ Count = 2
  /\ ~Raised(History[1])
  /\ DeepEqual(History[1].result, out.expected)
  /\ Failed

(* C15: an expected argument given to toHaveBeenCalled is a usage error:   *)
(* the call raises instead of returning a pass/fail result record.          *)
C15_ExpectedArgumentRaises ==
  (Asserted("toHaveBeenCalled") /\ Len(out.args) > 0) =>
    out.result.kind = "throw"

(* C16: with any expected argument, a falsy one or an explicit undefined   *)
(* too, toHaveBeenCalled on a recognized spy is never pass = true, whatever *)
(* the history: the call count is not consulted.                            *)
C16_ExpectedArgumentNeverPasses ==
  (Asserted("toHaveBeenCalled") /\ Len(out.args) > 0) => ~Passed

\* a spy that was invoked, asserted with a falsy expected argument: not passed
C16_Witness ==
  /\ Asserted("toHaveBeenCalled")
  /\ Count > 0
  /\ Len(out.args) = 1
  /\ ~Truthy(out.args[1])
  /\ ~Passed

\* two outcomes raise alike, or return the same pass
SameVerdict(a, b) ==
  /\ a.kind = b.kind
  /\ a.kind = "return" => a.pass = b.pass

(* C17: toReturn is an alias of toHaveReturned: on every received value    *)
(* toReturn raises exactly when toHaveReturned raises, and otherwise        *)
(* returns the same pass.                                                   *)
C17_ToReturnIsToHaveReturned ==
  /\ out.matcher = "toReturn" =>
       \A this \in Contexts : SameVerdict(out.result, toHaveReturned(this, received))
  /\ out.matcher = "toHaveReturned" =>
       \A this \in Contexts : SameVerdict(out.result, toReturn(this, received))

\* toReturn on a spy that was invoked and only raised: failed
C17_Witness ==
  /\ Asserted("toReturn")
  /\ Count >= 1
  /\ \A i \in 1..Count : Raised(History[i])
  /\ Failed

(* C18: the pass value of every matcher is independent of the matcher      *)
(* context: calls on the same spy with the same expected arguments that     *)
(* differ only in isNot and promise return the same pass.                   *)
C18_PassIndependentOfContext ==
  (out.matcher # "none" /\ IsSpy(received)) =>
    \A this \in Contexts : SameVerdict(out.result, Apply(this, received, out))

\* a passing assertion that passes under isNot and under promise as well
C18_Witness ==
  /\ Asserted("toHaveBeenCalledTimes")
  /\ Count >= 1
  /\ Passed
  /\ Apply([type |-> "context", isNot |-> TRUE, promise |-> FALSE], received, out).pass
  /\ Apply([type |-> "context", isNot |-> FALSE, promise |-> TRUE], received, out).pass

(* C19: no matcher call mutates the spy: a matcher call, passing, failing  *)
(* or raising, leaves the received value and its history as they were; the  *)
(* history changes only by a spy invocation, which appends one record.      *)
C19_MatchersLeaveHistory ==
  [][/\ out' # out => received' = received
     /\ received' # received =>
          /\ out' = out
          /\ IsSpy(received) /\ IsSpy(received')
          /\ Len(Calls(received')) = Len(Calls(received)) + 1
          /\ SubSeq(Calls(received'), 1, Len(Calls(received))) = Calls(received)]_vars

\* a matcher has been called on a spy whose history is still whole
C19_Witness ==
  /\ Asserted("toHaveBeenLastCalledWith")
  /\ Count = MaxCalls
  /\ Passed

----------------------------------------------------------------------------
(* Vocabulary of the properties about messages *)

\* the history the kept result record was computed from
Captured == out.calls

\* the part a is in the text
Has(text, a) == \E i \in 1..Len(text) : text[i] = a

\* the part a is in the text, with the part b right after it
Says(text, a, b) == \E i \in 1..(Len(text) - 1) : text[i] = a /\ text[i + 1] = b

\* a number index that is below 1 or above the count
OutOfRange(n, count) == n.type = "number" /\ (n.twice < 2 \/ n.twice > 2 * count)

\* an outcome that is a result record with pass = true
Passes(result) == result.kind = "return" /\ result.pass

C22_CalledTimesMessageReportsCounts ==
  (out # NoOutcome /\ out.matcher = "toHaveBeenCalledTimes") =>
    \A i \in 1..Len(out.texts) :
      LET text == out.texts[i].text IN
      /\ out.result.pass =>
           Says(text, Lit("Expected number of calls: not "),
                EXPECTED_COLOR(Num(Len(Captured))))
      /\ ~out.result.pass =>
           /\ Says(text, Lit("Expected number of calls: "), EXPECTED_COLOR(Num(out.times)))
           /\ Says(text, Lit("Received number of calls: "),
                   RECEIVED_COLOR(Num(Len(Captured))))

\* the message of a failed count assertion on a spy that was invoked
C22_Witness ==
  /\ out # NoOutcome
  /\ out.matcher = "toHaveBeenCalledTimes"
  /\ Len(Captured) >= 1
  /\ out.times # Len(Captured)
  /\ ~out.result.pass
  /\ Len(out.texts) >= 1

(* C23: for an out-of-range index the failure message of                    *)
(* toHaveBeenNthCalledWith and of toHaveNthReturnedWith says 'not called'   *)
(* iff the spy has no call records, and otherwise 'only called <count>      *)
(* time(s)' with the actual number of calls.                                *)
C23_OutOfRangeMessageReportsCount ==
  (out # NoOutcome /\ out.matcher \in NthMatchers
     /\ OutOfRange(out.n, Len(Captured))) =>
    /\ out.result = Return(FALSE)
    /\ \A i \in 1..Len(out.texts) :
         LET text == out.texts[i].text IN
         /\ Has(text, Lit("not called")) <=> Len(Captured) = 0
         /\ Len(Captured) > 0 =>
              /\ Says(text, Lit("only called "), ToString(Num(Len(Captured))))
              /\ Says(text, ToString(Num(Len(Captured))), Lit(" time(s)"))

\* the second result asked of a spy that was invoked once
C23_Witness ==
  /\ out # NoOutcome
  /\ out.matcher = "toHaveNthReturnedWith"
  /\ Len(Captured) = 1
  /\ IsNumber(out.n, 2)
  /\ Len(out.texts) >= 1
  /\ ~Has(out.texts[1].text, Lit("not called"))

(* C24: the existential matchers are monotone: once toHaveBeenCalled,       *)
(* toHaveBeenCalledWith(...args), toHaveReturned or toHaveReturnedWith(v)   *)
(* passes on the spy, the same assertion passes in every later state,       *)
(* whatever invocations, returning or raising, come after.                  *)
C24_ExistentialMatchersMonotone ==
  [][\/ received' = received
     \/ ~IsSpy(received)
     \/ /\ Passes(toHaveBeenCalled(Undefined, received, <<>>)) =>
             Passes(toHaveBeenCalled(Undefined, received', <<>>))
        /\ \A args \in ArgSeqs :
             Passes(toHaveBeenCalledWith(Undefined, received, args)) =>
               Passes(toHaveBeenCalledWith(Undefined, received', args))
        /\ Passes(toHaveReturned(Undefined, received)) =>
             Passes(toHaveReturned(Undefined, received'))
        /\ \A v \in Values :
             Passes(toHaveReturnedWith(Undefined, received, v)) =>
               Passes(toHaveReturnedWith(Undefined, received', v))]_vars

\* arguments of the first invocation only, asserted after the second: passed
C24_Witness ==
  /\ Asserted("toHaveBeenCalledWith")
  /\ Count = 2
  /\ SameArguments(History[1].arguments, out.args)
  /\ ~SameArguments(History[2].arguments, out.args)
  /\ Raised(History[2])
  /\ Passed

(* C25: the nth matchers are stable once their record exists: for n >= 1,   *)
(* from the first state with count >= n the pass of                         *)
(* toHaveBeenNthCalledWith(S, n, ...args) and of                            *)
(* toHaveNthReturnedWith(S, n, v) never changes under further invocations,  *)
(* and in every state with count < n it is false.                           *)
C25_NthMatchersStable ==
  [][\/ received' = received
     \/ ~IsSpy(received)
     \/ \A k \in 1..(MaxCalls + 1) :
          /\ \A args \in ArgSeqs :
               LET before == toHaveBeenNthCalledWith(Undefined, received, Num(k), args)
                   after == toHaveBeenNthCalledWith(Undefined, received', Num(k), args)
               IN
               /\ Len(Calls(received)) >= k => before = after
               /\ Len(Calls(received)) < k => before = Return(FALSE)
               /\ Len(Calls(received')) < k => after = Return(FALSE)
          /\ \A v \in Values :
               LET before == toHaveNthReturnedWith(Undefined, received, Num(k), v)
                   after == toHaveNthReturnedWith(Undefined, received', Num(k), v)
               IN
               /\ Len(Calls(received)) >= k => before = after
               /\ Len(Calls(received)) < k => before = Return(FALSE)
               /\ Len(Calls(received')) < k => after = Return(FALSE)]_vars

\* the first result, asserted after a second invocation with another result
C25_Witness ==
  /\ Asserted("toHaveNthReturnedWith")
  /\ Count = 2
  /\ IsNumber(out.n, 1)
  /\ ~DeepEqual(History[1].result, History[2].result)
  /\ Passed

(* C26: toHaveBeenCalledWith(S, ...expectedArgs) passes iff some n in       *)
(* [1, count] makes toHaveBeenNthCalledWith(S, n, ...expectedArgs) pass;    *)
(* toHaveReturnedWith(S, v) passes iff some n in [1, count] makes           *)
(* toHaveNthReturnedWith(S, n, v) pass.                                     *)
C26_SomeIffSomeNth ==
  /\ Asserted("toHaveBeenCalledWith") =>
       /\ Returns
       /\ out.result.pass <=>
            \E k \in 1..Count :
              Passes(toHaveBeenNthCalledWith(Undefined, received, Num(k), out.args))
  /\ Asserted("toHaveReturnedWith") =>
       /\ Returns
       /\ out.result.pass <=>
            \E k \in 1..Count :
              Passes(toHaveNthReturnedWith(Undefined, received, Num(k), out.expected))

\* a value that only the second of two records returned: passed
C26_Witness ==
  /\ Asserted("toHaveReturnedWith")
  /\ Count = 2
  /\ ~Passes(toHaveNthReturnedWith(Undefined, received, Num(1), out.expected))
  /\ Passes(toHaveNthReturnedWith(Undefined, received, Num(2), out.expected))
  /\ Passed

(* C27: with count >= 1 the 'last' matchers agree with the 'nth' matchers   *)
(* at n = count: toHaveBeenLastCalledWith(S, ...args) has the pass of       *)
(* toHaveBeenNthCalledWith(S, count, ...args), toHaveLastReturnedWith(S, v) *)
(* the pass of toHaveNthReturnedWith(S, count, v); with count = 0 all four  *)
(* fail.                                                                    *)
C27_LastIsNthAtCount ==
  /\ Asserted("toHaveBeenLastCalledWith") =>
       /\ Returns
       /\ Count >= 1 =>
            out.result = toHaveBeenNthCalledWith(Undefined, received, Num(Count), out.args)
       /\ Count = 0 =>
            /\ Failed
            /\ toHaveBeenNthCalledWith(Undefined, received, Num(Count), out.args)
                 = Return(FALSE)
  /\ Asserted("toHaveLastReturnedWith") =>
       /\ Returns
       /\ Count >= 1 =>
            out.result = toHaveNthReturnedWith(Undefined, received, Num(Count), out.expected)
       /\ Count = 0 =>
            /\ Failed
            /\ toHaveNthReturnedWith(Undefined, received, Num(Count), out.expected)
                 = Return(FALSE)
  /\ (out.matcher \in NthMatchers /\ IsSpy(received) /\ Count = 0 /\ IsNumber(out.n, 0)) =>
       Failed

\* the last of two records returned an array equal to the expected one
C27_Witness ==
  /\ Asserted("toHaveLastReturnedWith")
  /\ Count = 2
  /\ out.expected.type = "array"
  /\ ~DeepEqual(History[1].result, out.expected)
  /\ Passes(toHaveNthReturnedWith(Undefined, received, Num(2), out.expected))
  /\ Passed

(* C28: toHaveBeenNthCalledWith and toHaveNthReturnedWith on a recognized   *)
(* spy, given an index that is not an integer (omitted or undefined, or     *)
(* fractional such as 1.5), return a failing result record and do not       *)
(* raise, whatever the history.                                             *)
C28_NonIntegerIndexFails ==
  (out.matcher \in NthMatchers /\ IsSpy(received) /\ ~IsInteger(out.n)) => Failed

(* C29: the shape guard rejects every callable without a call-history       *)
(* container: for a callable whose mock is absent, a primitive, null or an  *)
(* object without a list of calls, every matcher raises the 'received value *)
(* must be a node mock function' usage error and nothing else.              *)
C29_GuardRejectsCallablesWithoutHistory ==
  (out.matcher # "none" /\ received.type = "function" /\ ~IsSpy(received)) =>
    out.result = Throw(MustBeNodeMock)

(* C30: toReturn carries the matcher context through to toHaveReturned: on  *)
(* the same spy and with the same context (isNot, promise) the message of   *)
(* toReturn is the message of toHaveReturned, the negation in the hint      *)
(* included.                                                                *)
C30_ToReturnMessageIsToHaveReturnedMessage ==
  (out # NoOutcome /\ out.matcher = "toReturn") =>
    \A i \in 1..Len(out.texts) :
      out.texts[i].text = toHaveReturnedMessage(out.this, Function(MockContext(Captured)))

====
